---------------------------- MODULE Spec2Model ----------------------------
(***************************************************************************)
(* Model of the metrics logic of the Streamlit dashboard pages:            *)
(*   pages/Category_Analysis.py          get_period_dates                  *)
(*   pages/Analytics.py                  calculate_monthly_metrics and the *)
(*                                       rounded display_stats table       *)
(*   pages/Poor_Performance_Analysis.py  product_stats aggregation         *)
(* Each page is a script that runs top to bottom; `pc` is its position.    *)
(* Money is counted in cents and percentages in hundredths of a percent,   *)
(* so that round(2) is an operation on integers.                           *)
(***************************************************************************)
EXTENDS Integers, Sequences, FiniteSets

VARIABLES
    page,             \* which script this run executes
    pc,               \* position of the run inside the script
    period_type,      \* Category_Analysis: argument of get_period_dates
    reference_date,   \* Category_Analysis: argument of get_period_dates
    period_result,    \* Category_Analysis: (start_date, end_date) returned
    df,               \* Analytics: the frame passed to calculate_monthly_metrics
    monthly_stats,    \* Analytics: the frame calculate_monthly_metrics returns
    display_stats,    \* Analytics: the rounded copy shown as a table
    products_df,      \* Poor_Performance: products.csv, product_id -> row
    order_items_df,   \* Poor_Performance: order_items.csv rows
    merged_df,        \* Poor_Performance: the cached order_items x products join
    filtered_df,      \* Poor_Performance: merged rows after the filters
    product_stats,    \* Poor_Performance: the product performance table
    this_result,      \* Category_Analysis: result of a second get_period_dates call
    orders_df,        \* page run: orders.csv rows
    users_df,         \* page run: users.csv, id -> row
    files_ok,         \* page run: whether the csv files of sample_data/ can be read
    cache,            \* page run: what st.cache_data holds for the page's loader
    selection,        \* page run: the values of the sidebar widgets
    shown,            \* page run: st.error / st.warning / exception shown, if any
    overview,         \* page run: the overview metric computed by a division
    remembered,       \* session: an earlier run's selection and derived table
    category_metrics, \* Category_Analysis: the category table
    top_10_by_count,  \* Category_Analysis: the view sorted by Order Count
    top_10_by_price,  \* Category_Analysis: the view sorted by Avg Price
    dept_metrics      \* Category_Analysis: the department table

vars == <<page, pc, period_type, reference_date, period_result,
          df, monthly_stats, display_stats,
          products_df, order_items_df, merged_df, filtered_df, product_stats,
          this_result, orders_df, users_df, files_ok, cache, selection, shown, overview, remembered,
          category_metrics, top_10_by_count, top_10_by_price, dept_metrics>>

periodVars  == <<period_type, reference_date, period_result, this_result>>
monthlyVars == <<df, monthly_stats, display_stats>>
productVars == <<products_df, order_items_df, merged_df, filtered_df, product_stats>>
runVars     == <<orders_df, users_df, files_ok, cache, selection, shown, overview, remembered>>
categoryVars == <<category_metrics, top_10_by_count, top_10_by_price, dept_metrics>>

----------------------------------------------------------------------------
(* Bounds of the model *)

FirstYear == 2023
LastYear  == 2025

Years == FirstYear .. LastYear

----------------------------------------------------------------------------
(* Calendar dates: datetime.date and timedelta, as the page uses them.      *)

Date(y, m, d) == [year |-> y, month |-> m, day |-> d]

\* What get_period_dates returns in place of a date for "no filter".
None == Date(0, 0, 0)

IsLeap(y) == (y % 4 = 0) /\ ((y % 100 # 0) \/ (y % 400 = 0))

DaysInMonth(y, m) ==
    IF m = 2 THEN (IF IsLeap(y) THEN 29 ELSE 28)
    ELSE IF m \in {4, 6, 9, 11} THEN 30 ELSE 31

RECURSIVE DaysBeforeMonth(_, _)
DaysBeforeMonth(y, m) ==
    IF m = 1 THEN 0 ELSE DaysBeforeMonth(y, m - 1) + DaysInMonth(y, m - 1)

DaysBeforeYear(y) ==
    (y - 1) * 365 + ((y - 1) \div 4) - ((y - 1) \div 100) + ((y - 1) \div 400)

\* date.toordinal(): 0001-01-01 is day 1.
ToOrdinal(d) == DaysBeforeYear(d.year) + DaysBeforeMonth(d.year, d.month) + d.day

\* date.fromordinal(), the proleptic Gregorian algorithm of the datetime module.
FromOrdinal(n) ==
    LET n0   == n - 1
        n400 == n0 \div 146097
        r400 == n0 % 146097
        n100 == r400 \div 36524
        r100 == r400 % 36524
        n4   == r100 \div 1461
        r4   == r100 % 1461
        n1   == r4 \div 365
        r1   == r4 % 365
        y    == n400 * 400 + 1 + n100 * 100 + n4 * 4 + n1
    IN  IF n1 = 4 \/ n100 = 4
        THEN Date(y - 1, 12, 31)
        ELSE LET m0 == (r1 + 50) \div 32
                 p0 == DaysBeforeMonth(y, m0)
                 m  == IF p0 > r1 THEN m0 - 1 ELSE m0
                 p  == IF p0 > r1 THEN p0 - DaysInMonth(y, m0 - 1) ELSE p0
             IN  Date(y, m, r1 - p + 1)

\* date - timedelta(days=n)
MinusDays(d, n) == FromOrdinal(ToOrdinal(d) - n)

\* date.replace(day=1)
ReplaceDay1(d) == Date(d.year, d.month, 1)

\* Comparison of dates, as datetime.date orders them.
DateLE(a, b) ==
    \/ a.year < b.year
    \/ a.year = b.year /\ a.month < b.month
    \/ a.year = b.year /\ a.month = b.month /\ a.day <= b.day

DateLT(a, b) == DateLE(a, b) /\ a # b

\* Every calendar date of the given years.
DatesOf(ys) ==
    { Date(y, m, d) : y \in ys, m \in 1..12, d \in 1..31 } \
    { dd \in { Date(y, m, d) : y \in ys, m \in 1..12, d \in 29..31 } :
        dd.day > DaysInMonth(dd.year, dd.month) }

----------------------------------------------------------------------------
(* Category_Analysis.py: get_period_dates                                   *)

\* The names the page's selectbox offers.
PeriodOptions ==
    { "All Time", "Last 7 Days", "Last 30 Days", "This Month", "Last Month",
      "This Quarter", "Last Quarter", "This Year", "Last Year", "Custom Range" }

\* Names get_period_dates is called with here: the selectbox names, and names
\* no selectbox of this page offers (the second is a period of the Poor
\* Performance page).
PeriodNames == PeriodOptions \cup { "Yesterday", "Last 60 Days" }

Range(s, e) == <<s, e>>

Last7Days(reference_date_) ==
    Range(MinusDays(reference_date_, 6), reference_date_)

\* The mutant goes back 30 days, which makes a window of 31 calendar days.
Last30DaysThirty(reference_date_) ==
    Range(MinusDays(reference_date_, 30), reference_date_)

Last30Days(reference_date_) ==
    Range(MinusDays(reference_date_, 29), reference_date_)

ThisMonth(reference_date_) ==
    Range(ReplaceDay1(reference_date_), reference_date_)

\* The mutant goes back one month by the month number and forgets that the
\* previous month may have fewer days than 31 and that January has no month 0.
LastMonthNaive(reference_date_) ==
    Range(Date(reference_date_.year, reference_date_.month - 1, 1),
          Date(reference_date_.year, reference_date_.month - 1, 31))

LastMonth(reference_date_) ==
    LET first_day_this_month == ReplaceDay1(reference_date_)
        end_date == MinusDays(first_day_this_month, 1)
    IN  Range(ReplaceDay1(end_date), end_date)

\* The mutant takes the quarter as month div 3, without the -1.
ThisQuarterNoMinusOne(reference_date_) ==
    LET quarter == reference_date_.month \div 3
    IN  Range(Date(reference_date_.year, quarter * 3 + 1, 1), reference_date_)

ThisQuarter(reference_date_) ==
    LET quarter == (reference_date_.month - 1) \div 3
    IN  Range(Date(reference_date_.year, quarter * 3 + 1, 1), reference_date_)

\* The mutant derives the start from the reference's year, not from the year
\* of the day before this quarter: no roll back into the previous year.
LastQuarterNoRollback(reference_date_) ==
    LET first_day_this_quarter ==
            Date(reference_date_.year,
                 ((reference_date_.month - 1) \div 3) * 3 + 1, 1)
        end_date == MinusDays(first_day_this_quarter, 1)
        quarter == (end_date.month - 1) \div 3
    IN  Range(Date(reference_date_.year, quarter * 3 + 1, 1), end_date)

LastQuarter(reference_date_) ==
    LET first_day_this_quarter ==
            Date(reference_date_.year,
                 ((reference_date_.month - 1) \div 3) * 3 + 1, 1)
        end_date == MinusDays(first_day_this_quarter, 1)
        quarter == (end_date.month - 1) \div 3
    IN  Range(Date(end_date.year, quarter * 3 + 1, 1), end_date)

ThisYear(reference_date_) ==
    Range(Date(reference_date_.year, 1, 1), reference_date_)

\* The mutant ends the range on the reference's day of the year before.
LastYearToDate(reference_date_) ==
    Range(Date(reference_date_.year - 1, 1, 1),
          Date(reference_date_.year - 1, reference_date_.month, reference_date_.day))

LastYear_(reference_date_) ==
    Range(Date(reference_date_.year - 1, 1, 1),
          Date(reference_date_.year - 1, 12, 31))

get_period_dates(period_type_, reference_date_) ==
    CASE period_type_ = "Last 7 Days"   -> Last7Days(reference_date_)
      [] period_type_ = "Last 30 Days"  -> Last30Days(reference_date_)
      [] period_type_ = "This Month"    -> ThisMonth(reference_date_)
      [] period_type_ = "Last Month"    -> LastMonth(reference_date_)
      [] period_type_ = "This Quarter"  -> ThisQuarter(reference_date_)
      [] period_type_ = "Last Quarter"  -> LastQuarter(reference_date_)
      [] period_type_ = "This Year"     -> ThisYear(reference_date_)
      [] period_type_ = "Last Year"     -> LastYear_(reference_date_)
      [] OTHER                          -> Range(None, None)

start_date == period_result[1]
end_date   == period_result[2]

idlePeriod  == /\ period_type = "" /\ reference_date = None
               /\ period_result = Range(None, None)
               /\ this_result = Range(None, None)
idleRun     == /\ orders_df = <<>> /\ users_df = <<>>
               /\ files_ok = TRUE /\ cache = <<>> /\ selection = <<>>
               /\ shown = "" /\ overview = <<>> /\ remembered = <<>>
idleCategory == /\ category_metrics = <<>> /\ top_10_by_count = <<>>
                /\ top_10_by_price = <<>> /\ dept_metrics = <<>>
idleMonthly == df = <<>> /\ monthly_stats = <<>> /\ display_stats = <<>>
idleProduct == /\ products_df = <<>> /\ order_items_df = <<>> /\ merged_df = <<>>
               /\ filtered_df = <<>> /\ product_stats = <<>>

InitPeriod ==
    /\ page = "Category_Analysis"
    /\ pc = "call"
    /\ period_type \in PeriodNames
    /\ reference_date \in DatesOf(Years)
    /\ period_result = Range(None, None)
    /\ this_result = Range(None, None)
    /\ idleRun
    /\ idleCategory
    /\ idleMonthly
    /\ idleProduct

\* The call get_period_dates(period_type, reference_date) and its return.
CallGetPeriodDates ==
    /\ page = "Category_Analysis"
    /\ pc = "call"
    /\ period_result' = get_period_dates(period_type, reference_date)
    /\ pc' = "returned"
    /\ UNCHANGED <<page, period_type, reference_date, this_result,
                   runVars, categoryVars, monthlyVars, productVars>>

NextPeriod == CallGetPeriodDates

SpecPeriod == InitPeriod /\ [][NextPeriod]_vars

\* The option of the selectbox that names the running unit of a "Last"
\* option.
ThisOf(last_period) ==
    CASE last_period = "Last Month"   -> "This Month"
      [] last_period = "Last Quarter" -> "This Quarter"
      [] last_period = "Last Year"    -> "This Year"

\* Two script runs over the same data: the user picks "Last X", then
\* "This X"; max_date, the reference of both calls, stays what it is.
InitPeriodPair ==
    /\ page = "Category_Analysis"
    /\ pc = "call_last"
    /\ period_type \in {"Last Month", "Last Quarter", "Last Year"}
    /\ reference_date \in DatesOf(Years)
    /\ period_result = Range(None, None)
    /\ this_result = Range(None, None)
    /\ idleRun
    /\ idleCategory
    /\ idleMonthly
    /\ idleProduct

CallLastPeriod ==
    /\ page = "Category_Analysis"
    /\ pc = "call_last"
    /\ period_result' = get_period_dates(period_type, reference_date)
    /\ period_type' = ThisOf(period_type)
    /\ pc' = "call_this"
    /\ UNCHANGED <<page, reference_date, this_result,
                   runVars, categoryVars, monthlyVars, productVars>>

CallThisPeriod ==
    /\ page = "Category_Analysis"
    /\ pc = "call_this"
    /\ this_result' = get_period_dates(period_type, reference_date)
    /\ pc' = "compared"
    /\ UNCHANGED <<page, period_type, reference_date, period_result,
                   runVars, categoryVars, monthlyVars, productVars>>

NextPeriodPair == CallLastPeriod \/ CallThisPeriod

SpecPeriodPair == InitPeriodPair /\ [][NextPeriodPair]_vars

----------------------------------------------------------------------------
(* Floating point values of a frame column.  A float is num/den with       *)
(* den > 0; den = 0 encodes what IEEE division by zero produces:           *)
(* 0/0 = NaN, x/0 = +inf for x > 0 and -inf for x < 0.                      *)

Float(n, d) == [num |-> n, den |-> d]

NaN    == Float(0, 0)
PosInf == Float(1, 0)
NegInf == Float(-1, 0)

IsNaN(x)    == x.den = 0 /\ x.num = 0
IsInf(x)    == x.den = 0 /\ x.num # 0
IsFinite(x) == x.den > 0

Sign(n) == IF n > 0 THEN 1 ELSE IF n < 0 THEN -1 ELSE 0

\* Two floats hold the same number.
FloatEq(x, y) ==
    /\ IsFinite(x) /\ IsFinite(y)
    /\ x.num * y.den = y.num * x.den

\* x <= y on floats; every comparison with NaN is false.
FloatLE(x, y) ==
    CASE IsNaN(x) \/ IsNaN(y) -> FALSE
      [] IsInf(x) /\ IsInf(y) -> x.num <= y.num
      [] IsInf(x)             -> x.num < 0
      [] IsInf(y)             -> y.num > 0
      [] OTHER                -> x.num * y.den <= y.num * x.den

\* Division of two finite floats with a non-negative divisor, as the
\* columns divide: a count or an amount by a count or an average.
FloatDiv(x, y) ==
    CASE IsNaN(x) \/ IsNaN(y)  -> NaN
      [] IsInf(x)              -> x
      [] y.num = 0             -> Float(Sign(x.num), 0)
      [] OTHER                 -> Float(x.num * y.den, x.den * y.num)

\* x * k for an integer k > 0.
FloatTimes(x, k) == IF IsFinite(x) THEN Float(x.num * k, x.den) ELSE x

\* x - y; NaN and the infinities propagate.
FloatMinus(x, y) ==
    CASE IsNaN(x) \/ IsNaN(y) -> NaN
      [] IsInf(x) /\ IsInf(y) -> IF x.num = y.num THEN NaN ELSE x
      [] IsInf(x)             -> x
      [] IsInf(y)             -> Float(-y.num, 0)
      [] OTHER                -> Float(x.num * y.den - y.num * x.den, x.den * y.den)

RECURSIVE Gcd(_, _)
Gcd(a, b) == IF b = 0 THEN a ELSE Gcd(b, a % b)

\* The same float with its fraction in lowest terms.
Reduce(x) ==
    IF IsFinite(x)
    THEN LET g == Gcd(IF x.num < 0 THEN -x.num ELSE x.num, x.den)
         IN  Float(x.num \div g, x.den \div g)
    ELSE x

\* The mutant truncates toward minus infinity instead of rounding.
RoundHalfEvenFloor(n, d) == n \div d

\* rint(n/d) for d > 0: the nearest integer, a tie going to the even one.
RoundHalfEven(n, d) ==
    LET q == n \div d
        r == n % d
    IN  IF 2 * r < d THEN q
        ELSE IF 2 * r > d THEN q + 1
        ELSE IF q % 2 = 0 THEN q ELSE q + 1

\* Series.round(2): hundredths; NaN and the infinities stay what they are.
Round2(x) ==
    IF IsFinite(x) THEN Float(RoundHalfEven(x.num * 100, x.den), 100) ELSE x

----------------------------------------------------------------------------
(* Analytics.py: calculate_monthly_metrics and the display table           *)

\* created_at values of the orders: the last day of 2023, two days of
\* January 2024 and one of February 2024.
OrderDates ==
    { Date(2023, 12, 31), Date(2024, 1, 1), Date(2024, 1, 31), Date(2024, 2, 1) }

OrderStatuses == { "Cancelled", "Complete" }

\* Largest number of rows of the frame passed to calculate_monthly_metrics.
MaxOrders == 5

\* A frame of orders: order_id is the key of orders.csv and is never null.
OrderFrame(c, st) ==
    [ i \in DOMAIN c |-> [order_id |-> i, created_at |-> c[i], status |-> st[i]] ]

\* The mutant keeps the month number only, as dt.month would.
ToPeriodMonthOnly(created_at) == [year |-> 0, month |-> created_at.month]

\* dt.to_period('M')
ToPeriodM(created_at) == [year |-> created_at.year, month |-> created_at.month]

\* Periods order chronologically.
PeriodLT(a, b) == a.year * 12 + a.month < b.year * 12 + b.month

Digit(n) ==
    CASE n = 0 -> "0" [] n = 1 -> "1" [] n = 2 -> "2" [] n = 3 -> "3"
      [] n = 4 -> "4" [] n = 5 -> "5" [] n = 6 -> "6" [] n = 7 -> "7"
      [] n = 8 -> "8" [] n = 9 -> "9"

\* astype(str) of a monthly Period: the characters of "YYYY-MM".
PeriodStr(p) ==
    << Digit((p.year \div 1000) % 10), Digit((p.year \div 100) % 10),
       Digit((p.year \div 10) % 10), Digit(p.year % 10), "-",
       Digit((p.month \div 10) % 10), Digit(p.month % 10) >>

\* The keys of groupby(...): the distinct values, sorted ascending.
RECURSIVE SortedPeriods(_)
SortedPeriods(S) ==
    IF S = {} THEN <<>>
    ELSE LET least == CHOOSE a \in S : \A b \in S \ {a} : PeriodLT(a, b)
         IN  <<least>> \o SortedPeriods(S \ {least})

\* 'count': the rows of the group whose order_id is not null.
CountOrderId(frame, rows) == Cardinality({ i \in rows : frame[i].order_id # 0 })

\* lambda x: (x == 'Cancelled').sum()
CountCancelled(frame, rows) ==
    Cardinality({ i \in rows : frame[i].status = "Cancelled" })

\* The mutant divides the wrong way round.
CancelRateInverted(cancelled_orders, total_orders) ==
    FloatTimes(FloatDiv(Float(total_orders, 1), Float(cancelled_orders, 1)), 100)

\* cancelled_orders / total_orders * 100
CancelRate(cancelled_orders, total_orders) ==
    FloatTimes(FloatDiv(Float(cancelled_orders, 1), Float(total_orders, 1)), 100)

calculate_monthly_metrics(frame) ==
    LET year_month == [ i \in DOMAIN frame |-> ToPeriodM(frame[i].created_at) ]
        keys == SortedPeriods({ year_month[i] : i \in DOMAIN frame })
        Group(k) == { i \in DOMAIN frame : year_month[i] = k }
    IN  [ j \in DOMAIN keys |->
            LET total_orders == CountOrderId(frame, Group(keys[j]))
                cancelled_orders == CountCancelled(frame, Group(keys[j]))
            IN  [ year_month       |-> PeriodStr(keys[j]),
                  total_orders     |-> total_orders,
                  cancelled_orders |-> cancelled_orders,
                  cancel_rate      |-> CancelRate(cancelled_orders, total_orders) ] ]

\* display_stats = monthly_stats.copy() with cancel_rate rounded to 2 places.
DisplayStats(stats) ==
    [ j \in DOMAIN stats |->
        [ stats[j] EXCEPT !.cancel_rate = Round2(stats[j].cancel_rate) ] ]

InitMonthly ==
    /\ page = "Analytics"
    /\ pc = "call"
    /\ idlePeriod
    /\ idleRun
    /\ idleCategory
    /\ \E n \in 1..MaxOrders :
          \E c \in [1..n -> OrderDates], st \in [1..n -> OrderStatuses] :
              df = OrderFrame(c, st)
    /\ monthly_stats = <<>> /\ display_stats = <<>>
    /\ idleProduct

\* monthly_stats = calculate_monthly_metrics(filtered_df)
CallCalculateMonthlyMetrics ==
    /\ page = "Analytics"
    /\ pc = "call"
    /\ monthly_stats' = calculate_monthly_metrics(df)
    /\ pc' = "returned"
    /\ UNCHANGED <<page, periodVars, runVars, categoryVars, df, display_stats, productVars>>

\* The "Monthly Summary Data" table.
ShowDisplayStats ==
    /\ page = "Analytics"
    /\ pc = "returned"
    /\ display_stats' = DisplayStats(monthly_stats)
    /\ pc' = "displayed"
    /\ UNCHANGED <<page, periodVars, runVars, categoryVars, df, monthly_stats, productVars>>

NextMonthly == CallCalculateMonthlyMetrics \/ ShowDisplayStats

SpecMonthly == InitMonthly /\ [][NextMonthly]_vars

----------------------------------------------------------------------------
(* Poor_Performance_Analysis.py: load_data and the product_stats table      *)

Zero == Float(0, 1)

\* x * k for a count k >= 0 (0 * inf is NaN).
FloatTimesCount(x, k) ==
    IF IsFinite(x) THEN Float(x.num * k, x.den)
    ELSE IF k = 0 THEN NaN ELSE x

\* id column of products.csv.
ProductIds == {1, 2}

\* cost column: missing, free, or 5.00.
Costs == { NaN, Float(0, 100), Float(500, 100) }

\* retail_price column: missing or 20.00.
RetailPrices == { NaN, Float(2000, 100) }

\* sale_price column of order_items.csv, in cents: 0.00 or 12.00.
SalePrices == { 0, 1200 }

ItemStatuses == { "Returned", "Complete" }

\* Largest number of rows of order_items.csv.
MaxItems == 3

\* The descriptive columns of a product; they are never missing here.
ProductName(id)       == IF id = 1 THEN "Jeans 501" ELSE "Summer Dress"
ProductCategory(id)   == IF id = 1 THEN "Jeans" ELSE "Dresses"
ProductBrand(id)      == IF id = 1 THEN "Levi's" ELSE "Allegra K"
ProductDepartment(id) == IF id = 1 THEN "Men" ELSE "Women"

\* products.csv as id -> row.
ProductsFrame(cost, retail) ==
    [ id \in ProductIds |->
        [ id |-> id, name |-> ProductName(id), category |-> ProductCategory(id),
          brand |-> ProductBrand(id), department |-> ProductDepartment(id),
          cost |-> cost[id], retail_price |-> retail[id] ] ]

\* order_items.csv: id is the key of the file and is never null.
OrderItemsFrame(prod, price, st) ==
    [ i \in DOMAIN prod |->
        [ id |-> i, product_id |-> prod[i],
          sale_price |-> Float(price[i], 100), status |-> st[i] ] ]

\* order_items_df.merge(products_df, left_on='product_id', right_on='id',
\* how='left', suffixes=('_order', '_product'))
MergeProducts(items, products) ==
    [ i \in DOMAIN items |->
        LET prow == products[items[i].product_id]
        IN  [ id_order     |-> items[i].id,
              product_id   |-> items[i].product_id,
              sale_price   |-> items[i].sale_price,
              status       |-> items[i].status,
              name         |-> prow.name,
              category     |-> prow.category,
              brand        |-> prow.brand,
              department   |-> prow.department,
              cost         |-> prow.cost,
              retail_price |-> prow.retail_price ] ]

\* groupby drops a row when one of its group keys is NaN (dropna=True, the
\* default).  The text keys are never missing here.
GroupKeyIsNaN(row) == IsNaN(row.cost) \/ IsNaN(row.retail_price)

\* The groups of groupby([...]): the key tuples of the rows that are kept.
\* The other six keys are columns of the product row, so that product_id
\* alone tells the groups apart and orders them.
GroupIds(frame) ==
    { frame[i].product_id : i \in { k \in DOMAIN frame : ~GroupKeyIsNaN(frame[k]) } }

RECURSIVE SortedIds(_)
SortedIds(S) ==
    IF S = {} THEN <<>>
    ELSE LET least == CHOOSE a \in S : \A b \in S : a <= b
         IN  <<least>> \o SortedIds(S \ {least})

RECURSIVE SumSalePrice(_, _)
\* 'sale_price': 'sum' over the rows of a group, in cents.
SumSalePrice(frame, rows) ==
    IF rows = {} THEN 0
    ELSE LET i == CHOOSE k \in rows : TRUE
         IN  frame[i].sale_price.num + SumSalePrice(frame, rows \ {i})

\* The mutant counts the returned rows of the whole frame, not of the group.
CountReturnedWholeFrame(frame, rows) ==
    Cardinality({ i \in DOMAIN frame : frame[i].status = "Returned" })

\* lambda x: (x == 'Returned').sum()
CountReturned(frame, rows) ==
    Cardinality({ i \in rows : frame[i].status = "Returned" })

\* product_stats.fillna(0) on one value: NaN becomes 0, everything else
\* (the infinities too) stays.
FillNa(x) == IF IsNaN(x) THEN Zero ELSE x

\* One row of product_stats: the agg columns, the derived metrics, fillna(0).
ProductRow(frame, pid) ==
    LET rows == { i \in DOMAIN frame :
                    frame[i].product_id = pid /\ ~GroupKeyIsNaN(frame[i]) }
        first == frame[CHOOSE i \in rows : TRUE]
        total_sales_count == Cardinality({ i \in rows : frame[i].id_order # 0 })
        total_revenue == Float(SumSalePrice(frame, rows), 100)
        return_count == CountReturned(frame, rows)
        return_rate ==
            Round2(FloatTimes(FloatDiv(Float(return_count, 1),
                                       Float(total_sales_count, 1)), 100))
        avg_sale_price ==
            Round2(FloatDiv(total_revenue, Float(total_sales_count, 1)))
        profit_per_item == Round2(FloatMinus(avg_sale_price, first.cost))
        total_profit == Round2(FloatTimesCount(profit_per_item, total_sales_count))
        profit_margin ==
            Round2(FloatTimes(FloatDiv(profit_per_item, avg_sale_price), 100))
    IN  [ product_id        |-> pid,
          name              |-> first.name,
          category          |-> first.category,
          brand             |-> first.brand,
          department        |-> first.department,
          cost              |-> FillNa(first.cost),
          retail_price      |-> FillNa(first.retail_price),
          total_sales_count |-> total_sales_count,
          total_revenue     |-> FillNa(total_revenue),
          return_count      |-> return_count,
          return_rate       |-> FillNa(return_rate),
          avg_sale_price    |-> FillNa(avg_sale_price),
          profit_per_item   |-> FillNa(profit_per_item),
          total_profit      |-> FillNa(total_profit),
          profit_margin     |-> FillNa(profit_margin) ]

\* The product performance table: one row per group, in key order.
ProductStats(frame) ==
    LET ids == SortedIds(GroupIds(frame))
    IN  [ j \in DOMAIN ids |-> ProductRow(frame, ids[j]) ]

InitProduct ==
    /\ page = "Poor_Performance_Analysis"
    /\ pc = "load"
    /\ idlePeriod
    /\ idleRun
    /\ idleCategory
    /\ idleMonthly
    /\ \E cost \in [ProductIds -> Costs], retail \in [ProductIds -> RetailPrices] :
          products_df = ProductsFrame(cost, retail)
    /\ \E n \in 1..MaxItems :
          \E prod \in [1..n -> ProductIds], price \in [1..n -> SalePrices],
             st \in [1..n -> ItemStatuses] :
              order_items_df = OrderItemsFrame(prod, price, st)
    /\ merged_df = <<>> /\ filtered_df = <<>> /\ product_stats = <<>>

\* merged_df, products_df, order_items_df = load_data()
LoadData ==
    /\ page = "Poor_Performance_Analysis"
    /\ pc = "load"
    /\ merged_df' = MergeProducts(order_items_df, products_df)
    /\ pc' = "filter"
    /\ UNCHANGED <<page, periodVars, runVars, categoryVars, monthlyVars, products_df, order_items_df,
                   filtered_df, product_stats>>

\* The sidebar as the page first shows it: period "All Time", category 'All'
\* and department "All", under which filtered_df is a copy of merged_df.
ApplyDefaultFilters ==
    /\ page = "Poor_Performance_Analysis"
    /\ pc = "filter"
    /\ filtered_df' = merged_df
    /\ pc' = "aggregate"
    /\ UNCHANGED <<page, periodVars, runVars, categoryVars, monthlyVars, products_df, order_items_df,
                   merged_df, product_stats>>

\* product_stats = filtered_df.groupby([...]).agg(...) ... .fillna(0)
ComputeProductStats ==
    /\ page = "Poor_Performance_Analysis"
    /\ pc = "aggregate"
    /\ product_stats' = ProductStats(filtered_df)
    /\ pc' = "done"
    /\ UNCHANGED <<page, periodVars, runVars, categoryVars, monthlyVars, products_df, order_items_df,
                   merged_df, filtered_df>>

NextProduct == LoadData \/ ApplyDefaultFilters \/ ComputeProductStats

SpecProduct == InitProduct /\ [][NextProduct]_vars

----------------------------------------------------------------------------
(* Category_Analysis.py: the page, from load_data to the department table   *)

\* Largest number of rows of order_items.csv when the rows differ in status,
\* gender and date (the columns the sidebar filters read).
MaxRows == 2

\* The slices the charts take with head(10) and head(5).
Top10 == 10
Top5  == 5

\* products.csv of this page: three products, one per category.
CategoryProducts ==
    [ id \in {1, 2, 3} |->
        [ id |-> id,
          category   |-> IF id = 1 THEN "Dresses" ELSE IF id = 2 THEN "Jeans" ELSE "Socks",
          name       |-> IF id = 1 THEN "Summer Dress" ELSE IF id = 2 THEN "Jeans 501" ELSE "Crew Socks",
          brand      |-> IF id = 1 THEN "Allegra K" ELSE IF id = 2 THEN "Levi's" ELSE "Hanes",
          department |-> IF id = 1 THEN "Women" ELSE "Men" ] ]

\* The order of the group keys: text sorts alphabetically.
TextRank(t) ==
    CASE t = "Dresses" -> 1 [] t = "Jeans" -> 2 [] t = "Socks" -> 3
      [] t = "Men" -> 4 [] t = "Women" -> 5

\* created_at dates of the line items: the latest one, and the days 29 and
\* 30 days before it.
ItemDates == { Date(2024, 2, 29), Date(2024, 3, 1), Date(2024, 3, 30) }

\* order_items.csv of this page; every line item has its own order.
CategoryItems(prod, price, st, created) ==
    [ i \in DOMAIN prod |->
        [ id |-> i, order_id |-> i, product_id |-> prod[i],
          sale_price |-> Float(price[i], 100), status |-> st[i],
          created_at |-> created[i] ] ]

\* orders.csv: order_id -> row.
OrdersWithGender(gender) ==
    [ i \in DOMAIN gender |-> [ order_id |-> i, gender |-> gender[i] ] ]

\* load_data: the two left merges.
MergeCategory(items, products, orders) ==
    [ i \in DOMAIN items |->
        [ id_x       |-> items[i].id,
          order_id   |-> items[i].order_id,
          product_id |-> items[i].product_id,
          sale_price |-> items[i].sale_price,
          status     |-> items[i].status,
          created_at |-> items[i].created_at,
          category   |-> products[items[i].product_id].category,
          department |-> products[items[i].product_id].department,
          gender     |-> orders[items[i].order_id].gender ] ]

RECURSIVE MinDate(_)
MinDate(S) ==
    LET d == CHOOSE x \in S : TRUE
    IN  IF S = {d} THEN d
        ELSE LET m == MinDate(S \ {d}) IN IF DateLE(d, m) THEN d ELSE m

RECURSIVE MaxDate(_)
MaxDate(S) ==
    LET d == CHOOSE x \in S : TRUE
    IN  IF S = {d} THEN d
        ELSE LET m == MaxDate(S \ {d}) IN IF DateLE(m, d) THEN d ELSE m

CreatedDates(frame) == { frame[i].created_at : i \in DOMAIN frame }

\* The sidebar of the page.  date_range is what st.date_input returns for
\* "Custom Range": two dates, or one while the user is still picking.
CategorySelections(frame) ==
    [ period_type : PeriodOptions \ {"Custom Range"},
      date_range  : {<<>>},
      status      : {"All"} \cup { frame[i].status : i \in DOMAIN frame },
      gender      : {"All", "Male", "Female"} ]
    \cup
    [ period_type : {"Custom Range"},
      date_range  : { <<Date(2024, 3, 1), Date(2024, 3, 30)>>, <<Date(2024, 3, 1)>> },
      status      : {"All"} \cup { frame[i].status : i \in DOMAIN frame },
      gender      : {"All", "Male", "Female"} ]

\* start_date, end_date of the page (lines 92-107).
SelectedRange(sel, frame) ==
    LET min_date == MinDate(CreatedDates(frame))
        max_date == MaxDate(CreatedDates(frame))
    IN  IF sel.period_type = "Custom Range"
        THEN IF Len(sel.date_range) = 2
             THEN Range(sel.date_range[1], sel.date_range[2])
             ELSE Range(min_date, max_date)
        ELSE LET r == get_period_dates(sel.period_type, max_date)
             IN  IF r[1] = None THEN Range(min_date, max_date) ELSE r

\* The mutant applies the gender filter to the cached frame instead of the
\* frame the status filter left, so that the status filter is lost.
CategoryFilterLosesStatus(frame, sel) ==
    LET range == SelectedRange(sel, frame)
        GenderOk(r) == \/ sel.gender = "All"
                       \/ sel.gender = "Male" /\ r.gender = "M"
                       \/ sel.gender = "Female" /\ r.gender = "F"
        DateOk(r) == \/ sel.period_type = "All Time"
                     \/ DateLE(range[1], r.created_at) /\ DateLE(r.created_at, range[2])
    IN  SelectSeq(SelectSeq(frame, GenderOk), DateOk)

\* filtered_df after the status, gender and date filters (lines 133-151).
CategoryFilter(frame, sel) ==
    LET range == SelectedRange(sel, frame)
        StatusOk(r) == sel.status = "All" \/ r.status = sel.status
        GenderOk(r) == \/ sel.gender = "All"
                       \/ sel.gender = "Male" /\ r.gender = "M"
                       \/ sel.gender = "Female" /\ r.gender = "F"
        DateOk(r) == \/ sel.period_type = "All Time"
                     \/ DateLE(range[1], r.created_at) /\ DateLE(r.created_at, range[2])
    IN  SelectSeq(SelectSeq(SelectSeq(frame, StatusOk), GenderOk), DateOk)

RECURSIVE SortedText(_)
\* The keys of a groupby on a text column: distinct, in alphabetical order.
SortedText(S) ==
    IF S = {} THEN <<>>
    ELSE LET least == CHOOSE a \in S : \A b \in S : TextRank(a) <= TextRank(b)
         IN  <<least>> \o SortedText(S \ {least})

RECURSIVE SumCents(_, _)
\* 'sum' of sale_price over the rows of a group, in cents.
SumCents(frame, rows) ==
    IF rows = {} THEN 0
    ELSE LET i == CHOOSE k \in rows : TRUE
         IN  frame[i].sale_price.num + SumCents(frame, rows \ {i})

\* groupby(column).agg(sum, mean, count of sale_price; count of id_x).round(2)
GroupMetrics(frame, column) ==
    LET keys == SortedText({ frame[i][column] : i \in DOMAIN frame })
    IN  [ j \in DOMAIN keys |->
            LET rows == { i \in DOMAIN frame : frame[i][column] = keys[j] }
                total == Float(SumCents(frame, rows), 100)
            IN  [ key         |-> keys[j],
                  Total_Sales |-> Round2(total),
                  Avg_Price   |-> Round2(Reduce(FloatDiv(total, Float(Cardinality(rows), 1)))),
                  Order_Count |-> Cardinality(rows) ] ]

\* Injective maps of 1..n onto itself.
Permutations(n) ==
    { p \in [1..n -> 1..n] : \A a, b \in 1..n : a # b => p[a] # p[b] }

\* The value a row is sorted by: the counts are integers, the amounts floats.
SortKey(row, column) ==
    IF column = "Order_Count" THEN Float(row.Order_Count, 1) ELSE row[column]

\* The mutant sorts ascending, the default of sort_values.
SortAscending(table, column) ==
    { [ j \in DOMAIN table |-> table[p[j]] ] :
        p \in { q \in Permutations(Len(table)) :
                  \A a, b \in DOMAIN table :
                      a < b => FloatLE(SortKey(table[q[a]], column),
                                       SortKey(table[q[b]], column)) } }

\* sort_values(column, ascending=False): the orders the default sort kind
\* (quicksort, which is not stable) can leave the rows in: descending by the
\* column, rows with equal values in any order.
SortDescending(table, column) ==
    { [ j \in DOMAIN table |-> table[p[j]] ] :
        p \in { q \in Permutations(Len(table)) :
                  \A a, b \in DOMAIN table :
                      a < b => FloatLE(SortKey(table[q[b]], column),
                                       SortKey(table[q[a]], column)) } }

RECURSIVE SumColumn(_, _)
\* Series.sum() of a float column, in hundredths.
SumColumn(table, column) ==
    IF table = <<>> THEN 0
    ELSE Head(table)[column].num + SumColumn(Tail(table), column)

RECURSIVE SumCount(_)
SumCount(table) ==
    IF table = <<>> THEN 0 ELSE Head(table).Order_Count + SumCount(Tail(table))

\* The mutant leaves the share a fraction of one.
SalesPctFraction(total_sales, all_sales) ==
    Round2(Reduce(FloatDiv(total_sales, Float(all_sales, 100))))

\* Total Sales / Total Sales.sum() * 100, rounded to 2 places.
SalesPct(total_sales, all_sales) ==
    Round2(FloatTimes(Reduce(FloatDiv(total_sales, Float(all_sales, 100))), 100))

\* The 'Sales %' column added to the sorted table.
WithSalesPct(table) ==
    [ j \in DOMAIN table |->
        [ key         |-> table[j].key,
          Total_Sales |-> table[j].Total_Sales,
          Avg_Price   |-> table[j].Avg_Price,
          Order_Count |-> table[j].Order_Count,
          Sales_Pct   |-> SalesPct(table[j].Total_Sales,
                                   SumColumn(table, "Total_Sales")) ] ]

\* head(n)
HeadRows(table, n) == SubSeq(table, 1, IF Len(table) < n THEN Len(table) ELSE n)

\* The "Avg Order Value" metric: Total Sales.sum() / Order Count.sum().
AvgOrderValue(table) ==
    FloatDiv(Float(SumColumn(table, "Total_Sales"), 100), Float(SumCount(table), 1))

\* The department table keeps two of the columns.
DeptColumns(table) ==
    [ j \in DOMAIN table |->
        [ key |-> table[j].key, Total_Sales |-> table[j].Total_Sales,
          Order_Count |-> table[j].Order_Count ] ]

\* The mutant goes on to the filters when the files cannot be read.
AfterFailedLoadContinues(p) == "filter"

\* Where a run stands after its load failed: Analytics catches the
\* exception, shows st.error and calls st.stop(); the other two pages let
\* the exception end the script run.
AfterFailedLoad(p) == IF p = "Analytics" THEN "stopped" ELSE "exception"

\* What the page shows after its load failed.
FailedLoadShows(p) == IF p = "Analytics" THEN "error" ELSE "exception"

\* The four metrics above the charts (lines 186-204).
CategoryOverview(table) ==
    [ total_categories |-> Len(table),
      total_sales      |-> Float(SumColumn(table, "Total_Sales"), 100),
      total_orders     |-> SumCount(table),
      avg_order_value  |-> AvgOrderValue(table) ]

\* Files whose line items differ in product and price: complete orders of
\* one day.
InitCategorySales ==
    \E n \in 1..MaxItems :
        \E prod \in [1..n -> DOMAIN CategoryProducts], price \in [1..n -> SalePrices] :
            /\ order_items_df = CategoryItems(prod, price,
                                              [i \in 1..n |-> "Complete"],
                                              [i \in 1..n |-> Date(2024, 3, 30)])
            /\ orders_df = OrdersWithGender([i \in 1..n |-> "M"])

\* Files whose line items differ in status, gender and date.
InitCategoryFilters ==
    \E n \in 1..MaxRows :
        \E st \in [1..n -> ItemStatuses], gender \in [1..n -> {"M", "F"}],
           created \in [1..n -> ItemDates] :
            /\ order_items_df = CategoryItems([i \in 1..n |-> 2], [i \in 1..n |-> 1200],
                                              st, created)
            /\ orders_df = OrdersWithGender(gender)

idleCategoryRun ==
    /\ page = "Category_Analysis" /\ pc = "load"
    /\ idlePeriod /\ idleMonthly /\ idleCategory
    /\ products_df = CategoryProducts
    /\ users_df = <<>> /\ cache = <<>> /\ shown = "" /\ overview = <<>>
    /\ selection = <<>> /\ remembered = <<>>
    /\ merged_df = <<>> /\ filtered_df = <<>> /\ product_stats = <<>>

InitCategory ==
    /\ idleCategoryRun
    /\ files_ok = TRUE
    /\ InitCategorySales

\* load_data(): the cached frame on a hit, the merged files on a miss; an
\* unreadable file raises out of the script.
CategoryLoad ==
    /\ page = "Category_Analysis" /\ pc = "load"
    /\ IF cache # <<>>
       THEN /\ merged_df' = cache[1]
            /\ pc' = "filter"
            /\ UNCHANGED <<cache, shown>>
       ELSE IF files_ok
       THEN /\ cache' = << MergeCategory(order_items_df, products_df, orders_df) >>
            /\ merged_df' = cache'[1]
            /\ pc' = "filter"
            /\ UNCHANGED shown
       ELSE /\ pc' = AfterFailedLoad(page)
            /\ shown' = FailedLoadShows(page)
            /\ UNCHANGED <<cache, merged_df>>
    /\ UNCHANGED <<page, periodVars, monthlyVars, categoryVars, products_df,
                   order_items_df, filtered_df, product_stats, orders_df,
                   users_df, files_ok, selection, overview, remembered>>

\* Lines 77-151: the sidebar widgets return what the user has chosen, and
\* the filters are applied.
CategoryApplyFilters ==
    /\ page = "Category_Analysis" /\ pc = "filter"
    /\ \E sel \in CategorySelections(merged_df) :
           /\ selection' = sel
           /\ filtered_df' = CategoryFilter(merged_df, sel)
    /\ pc' = "aggregate"
    /\ UNCHANGED <<page, periodVars, monthlyVars, categoryVars, products_df,
                   order_items_df, merged_df, product_stats, orders_df, users_df,
                   files_ok, cache, shown, overview, remembered>>

\* Lines 153-204: the category table and the four metrics.
CategoryAggregate ==
    /\ page = "Category_Analysis" /\ pc = "aggregate"
    /\ \E sorted \in SortDescending(GroupMetrics(filtered_df, "category"), "Total_Sales") :
           /\ category_metrics' = WithSalesPct(sorted)
           /\ overview' = CategoryOverview(category_metrics')
    /\ pc' = "views"
    /\ UNCHANGED <<page, periodVars, monthlyVars, productVars, top_10_by_count,
                   top_10_by_price, dept_metrics, orders_df, users_df, files_ok,
                   cache, selection, shown, remembered>>

\* Lines 262-336: the two top-10 tables and the department table.
CategoryViews ==
    /\ page = "Category_Analysis" /\ pc = "views"
    /\ \E by_count \in SortDescending(category_metrics, "Order_Count"),
          by_price \in SortDescending(category_metrics, "Avg_Price"),
          by_dept \in SortDescending(DeptColumns(GroupMetrics(filtered_df, "department")),
                                     "Total_Sales") :
           /\ top_10_by_count' = HeadRows(by_count, Top10)
           /\ top_10_by_price' = HeadRows(by_price, Top10)
           /\ dept_metrics' = by_dept
    /\ pc' = "done"
    /\ shown' = "tables"
    /\ UNCHANGED <<page, periodVars, monthlyVars, productVars, category_metrics,
                   orders_df, users_df, files_ok, cache, selection, overview,
                   remembered>>

NextCategory ==
    CategoryLoad \/ CategoryApplyFilters \/ CategoryAggregate \/ CategoryViews

SpecCategory == InitCategory /\ [][NextCategory]_vars

----------------------------------------------------------------------------
(* Analytics.py: the page, from load_analysis_data to the summary table     *)

\* users.csv as id -> row.  User 3 placed orders but has no row, so that the
\* left merge leaves country and traffic_source missing for those orders.
AnalyticsUsers ==
    [ id \in {1, 2} |->
        [ id |-> id,
          country        |-> IF id = 1 THEN "Japan" ELSE "United States",
          traffic_source |-> IF id = 1 THEN "Email" ELSE "Search" ] ]

UserIds == {1, 2, 3}

\* orders.csv of this page.
AnalyticsOrders(user, st, created) ==
    [ i \in DOMAIN user |->
        [ order_id |-> i, user_id |-> user[i], status |-> st[i],
          created_at |-> created[i] ] ]

\* orders_df.merge(users_df[...], how='left') followed by
\* dropna(subset=['country', 'traffic_source']).
MergeUsers(orders, users) ==
    LET known == SelectSeq(orders, LAMBDA o : o.user_id \in DOMAIN users)
    IN  [ i \in DOMAIN known |->
            [ order_id   |-> known[i].order_id,
              user_id    |-> known[i].user_id,
              status     |-> known[i].status,
              created_at |-> known[i].created_at,
              country    |-> users[known[i].user_id].country,
              traffic_source |-> users[known[i].user_id].traffic_source ] ]

\* The two multiselects: any subset of the values in the data.
AnalyticsSelections(frame) ==
    [ countries       : SUBSET { frame[i].country : i \in DOMAIN frame },
      traffic_sources : SUBSET { frame[i].traffic_source : i \in DOMAIN frame } ]

\* merged_df[country.isin(...) & traffic_source.isin(...)]
AnalyticsFilter(frame, sel) ==
    SelectSeq(frame, LAMBDA r : /\ r.country \in sel.countries
                                /\ r.traffic_source \in sel.traffic_sources)

\* The three metrics above the charts (lines 106-112).
AnalyticsOverview(frame, stats) ==
    [ total_orders    |-> Len(frame),
      avg_cancel_rate |-> CancelRate(CountCancelled(frame, DOMAIN frame), Len(frame)),
      months_analyzed |-> Len(stats) ]

idleAnalyticsRun ==
    /\ page = "Analytics" /\ pc = "load"
    /\ idlePeriod /\ idleMonthly /\ idleCategory /\ idleProduct
    /\ users_df = AnalyticsUsers
    /\ cache = <<>> /\ shown = "" /\ overview = <<>>
    /\ selection = <<>> /\ remembered = <<>>

InitAnalyticsOrders ==
    \E n \in 1..MaxRows :
        \E user \in [1..n -> UserIds], st \in [1..n -> OrderStatuses],
           created \in [1..n -> {Date(2024, 1, 31), Date(2024, 2, 1)}] :
            orders_df = AnalyticsOrders(user, st, created)

\* load_analysis_data(): the cached frame on a hit, the merged files on a
\* miss; st.error and st.stop() when a file cannot be read.
AnalyticsLoad ==
    /\ page = "Analytics" /\ pc = "load"
    /\ IF cache # <<>>
       THEN /\ merged_df' = cache[1]
            /\ pc' = "filter"
            /\ UNCHANGED <<cache, shown>>
       ELSE IF files_ok
       THEN /\ cache' = << MergeUsers(orders_df, users_df) >>
            /\ merged_df' = cache'[1]
            /\ pc' = "filter"
            /\ UNCHANGED shown
       ELSE /\ pc' = AfterFailedLoad(page)
            /\ shown' = FailedLoadShows(page)
            /\ UNCHANGED <<cache, merged_df>>
    /\ UNCHANGED <<page, periodVars, monthlyVars, categoryVars, products_df,
                   order_items_df, filtered_df, product_stats, orders_df,
                   users_df, files_ok, selection, overview, remembered>>

\* Lines 73-97: the multiselects, the filter and the empty-data check.
AnalyticsApplyFilters ==
    /\ page = "Analytics" /\ pc = "filter"
    /\ \E sel \in AnalyticsSelections(merged_df) :
           /\ selection' = sel
           /\ filtered_df' = AnalyticsFilter(merged_df, sel)
    /\ IF filtered_df' = <<>>
       THEN pc' = "stopped" /\ shown' = "warning"
       ELSE pc' = "aggregate" /\ UNCHANGED shown
    /\ UNCHANGED <<page, periodVars, monthlyVars, categoryVars, products_df,
                   order_items_df, merged_df, product_stats, orders_df, users_df,
                   files_ok, cache, overview, remembered>>

\* The mutant works on the caller's frame: the year_month column is added
\* to it.
InputWithYearMonth(frame) ==
    [ i \in DOMAIN frame |->
        [ order_id   |-> frame[i].order_id,
          user_id    |-> frame[i].user_id,
          status     |-> frame[i].status,
          created_at |-> frame[i].created_at,
          country    |-> frame[i].country,
          traffic_source |-> frame[i].traffic_source,
          year_month |-> ToPeriodM(frame[i].created_at) ] ]

\* The frame the caller passed to calculate_monthly_metrics, after the
\* call: the function works on df.copy(), so the frame is what it was.
InputAfterMonthlyMetrics(frame) == frame

\* Lines 100-207: the monthly table, the metrics and the summary table.
AnalyticsAggregate ==
    /\ page = "Analytics" /\ pc = "aggregate"
    /\ monthly_stats' = calculate_monthly_metrics(filtered_df)
    /\ filtered_df' = InputAfterMonthlyMetrics(filtered_df)
    /\ overview' = AnalyticsOverview(filtered_df, monthly_stats')
    /\ display_stats' = DisplayStats(monthly_stats')
    /\ pc' = "done"
    /\ shown' = "tables"
    /\ UNCHANGED <<page, periodVars, df, categoryVars, products_df, order_items_df,
                   merged_df, product_stats, orders_df, users_df, files_ok, cache,
                   selection, remembered>>

----------------------------------------------------------------------------
(* Poor_Performance_Analysis.py: the page, from load_data to the overview   *)

\* products.csv with every cost and retail price present.
PricedProducts ==
    ProductsFrame([id \in ProductIds |-> Float(500, 100)],
                  [id \in ProductIds |-> Float(2000, 100)])

\* The two merges of load_data, with the columns the filters read.
MergePoor(items, products) ==
    [ i \in DOMAIN items |->
        LET prow == products[items[i].product_id]
        IN  [ id_order     |-> items[i].id,
              product_id   |-> items[i].product_id,
              sale_price   |-> items[i].sale_price,
              status       |-> items[i].status,
              created_at   |-> items[i].created_at,
              name         |-> prow.name,
              category     |-> prow.category,
              brand        |-> prow.brand,
              department   |-> prow.department,
              cost         |-> prow.cost,
              retail_price |-> prow.retail_price ] ]

\* The three widgets of the sidebar.
PoorSelections(frame) ==
    [ period_type : {"All Time", "Last 30 Days", "Last 60 Days", "Last 90 Days"},
      category    : {"All"} \cup { frame[i].category : i \in DOMAIN frame },
      department  : {"All", "Men", "Women"} ]

\* int(period_type.split()[1])
PeriodDays(period) ==
    CASE period = "Last 30 Days" -> 30
      [] period = "Last 60 Days" -> 60
      [] period = "Last 90 Days" -> 90

\* Lines 57-62: the period filter.
PoorPeriodFilter(frame, period) ==
    IF period = "All Time" THEN frame
    ELSE LET cutoff_date == MinusDays(MaxDate(CreatedDates(frame)), PeriodDays(period))
         IN  SelectSeq(frame, LAMBDA r : DateLE(cutoff_date, r.created_at))

\* filtered_df after the period, category and department filters
\* (lines 57-85).
PoorFilter(frame, sel) ==
    LET by_period == PoorPeriodFilter(frame, sel.period_type)
        by_category ==
            SelectSeq(by_period, LAMBDA r : sel.category = "All" \/ r.category = sel.category)
    IN  SelectSeq(by_category,
                  LAMBDA r : sel.department = "All" \/ r.department = sel.department)

\* The first two metrics of the overview (lines 110-122).
PoorOverview(frame, stats) ==
    [ total_products  |-> Len(stats),
      avg_return_rate |->
          FloatTimes(FloatDiv(Float(Cardinality({ i \in DOMAIN frame :
                                                    frame[i].status = "Returned" }), 1),
                              Float(Len(frame), 1)), 100) ]

idlePoorRun ==
    /\ page = "Poor_Performance_Analysis" /\ pc = "load"
    /\ idlePeriod /\ idleMonthly /\ idleCategory
    /\ products_df = PricedProducts
    /\ orders_df = <<>> /\ users_df = <<>>
    /\ cache = <<>> /\ shown = "" /\ overview = <<>>
    /\ selection = <<>> /\ remembered = <<>>
    /\ merged_df = <<>> /\ filtered_df = <<>> /\ product_stats = <<>>

InitPoorItems ==
    \E n \in 1..MaxRows :
        \E prod \in [1..n -> ProductIds], st \in [1..n -> ItemStatuses],
           created \in [1..n -> ItemDates] :
            order_items_df = CategoryItems(prod, [i \in 1..n |-> 1200], st, created)

\* load_data(): the cached frame on a hit, the merged files on a miss; an
\* unreadable file raises out of the script.
PoorLoad ==
    /\ page = "Poor_Performance_Analysis" /\ pc = "load"
    /\ IF cache # <<>>
       THEN /\ merged_df' = cache[1]
            /\ pc' = "filter"
            /\ UNCHANGED <<cache, shown>>
       ELSE IF files_ok
       THEN /\ cache' = << MergePoor(order_items_df, products_df) >>
            /\ merged_df' = cache'[1]
            /\ pc' = "filter"
            /\ UNCHANGED shown
       ELSE /\ pc' = AfterFailedLoad(page)
            /\ shown' = FailedLoadShows(page)
            /\ UNCHANGED <<cache, merged_df>>
    /\ UNCHANGED <<page, periodVars, monthlyVars, categoryVars, products_df,
                   order_items_df, filtered_df, product_stats, orders_df,
                   users_df, files_ok, selection, overview, remembered>>

\* Lines 46-85: the sidebar widgets and the three filters.
PoorApplyFilters ==
    /\ page = "Poor_Performance_Analysis" /\ pc = "filter"
    /\ \E sel \in PoorSelections(merged_df) :
           /\ selection' = sel
           /\ filtered_df' = PoorFilter(merged_df, sel)
    /\ pc' = "aggregate"
    /\ UNCHANGED <<page, periodVars, monthlyVars, categoryVars, products_df,
                   order_items_df, merged_df, product_stats, orders_df, users_df,
                   files_ok, cache, shown, overview, remembered>>

\* Lines 87-122: product_stats and the overview metrics.
PoorAggregate ==
    /\ page = "Poor_Performance_Analysis" /\ pc = "aggregate"
    /\ product_stats' = ProductStats(filtered_df)
    /\ overview' = PoorOverview(filtered_df, product_stats')
    /\ pc' = "done"
    /\ shown' = "tables"
    /\ UNCHANGED <<page, periodVars, monthlyVars, categoryVars, products_df,
                   order_items_df, merged_df, filtered_df, orders_df, users_df,
                   files_ok, cache, selection, remembered>>

----------------------------------------------------------------------------
(* A visit to one of the three pages, with files that can or cannot be read *)

InitPages ==
    /\ files_ok \in BOOLEAN
    /\ \/ idleCategoryRun /\ InitCategoryFilters
       \/ idleAnalyticsRun /\ InitAnalyticsOrders
       \/ idlePoorRun /\ InitPoorItems

NextPages ==
    \/ CategoryLoad \/ CategoryApplyFilters \/ CategoryAggregate \/ CategoryViews
    \/ AnalyticsLoad \/ AnalyticsApplyFilters \/ AnalyticsAggregate
    \/ PoorLoad \/ PoorApplyFilters \/ PoorAggregate

SpecPages == InitPages /\ [][NextPages]_vars

----------------------------------------------------------------------------
(* A session: the script of a page runs again after every interaction,     *)
(* and the st.cache_data cache lives on between the runs                    *)

\* Largest number of script runs of a session.
MaxRuns == 2

\* Orders that differ in user and status, one every month.
InitSessionOrders ==
    \E n \in 1..MaxRows :
        \E user \in [1..n -> UserIds], st \in [1..n -> OrderStatuses] :
            orders_df = AnalyticsOrders(user, st, [i \in 1..n |-> Date(2024, i, 1)])

\* Returned line items that differ in product and date.
InitSessionItems ==
    \E n \in 1..MaxRows :
        \E prod \in [1..n -> ProductIds],
           created \in [1..n -> {Date(2024, 2, 29), Date(2024, 3, 30)}] :
            order_items_df = CategoryItems(prod, [i \in 1..n |-> 1200],
                                           [i \in 1..n |-> "Returned"], created)

InitSession ==
    /\ files_ok = TRUE
    /\ \/ idleAnalyticsRun /\ InitSessionOrders
       \/ idlePoorRun /\ InitSessionItems

\* What a finished run has put on the page.
Tables ==
    [ shown         |-> shown,
      filtered_df   |-> filtered_df,
      monthly_stats |-> monthly_stats,
      display_stats |-> display_stats,
      product_stats |-> product_stats,
      overview      |-> overview ]

\* The user changes a widget, or not: the script starts again from the top
\* with new frames, and only the cache is kept.  remembered holds the number
\* of finished runs with the widgets and the tables of the first of them.
Rerun ==
    /\ page \in {"Analytics", "Poor_Performance_Analysis"}
    /\ pc \in {"done", "stopped"}
    /\ IF remembered = <<>>
       THEN /\ 1 < MaxRuns
            /\ remembered' = << 1, selection, Tables >>
       ELSE /\ remembered[1] + 1 < MaxRuns
            /\ remembered' = << remembered[1] + 1, remembered[2], remembered[3] >>
    /\ pc' = "load"
    /\ shown' = "" /\ selection' = <<>> /\ overview' = <<>>
    /\ merged_df' = <<>> /\ filtered_df' = <<>> /\ product_stats' = <<>>
    /\ monthly_stats' = <<>> /\ display_stats' = <<>>
    /\ UNCHANGED <<page, periodVars, df, categoryVars, products_df, order_items_df,
                   orders_df, users_df, files_ok, cache>>

NextSession ==
    \/ AnalyticsLoad \/ AnalyticsApplyFilters \/ AnalyticsAggregate
    \/ PoorLoad \/ PoorApplyFilters \/ PoorAggregate
    \/ Rerun

SpecSession == InitSession /\ [][NextSession]_vars

----------------------------------------------------------------------------
(* A run of any of the three pages *)

Init == InitPeriod \/ InitMonthly \/ InitProduct

Next == NextPeriod \/ NextMonthly \/ NextProduct

Spec == Init /\ [][Next]_vars

----------------------------------------------------------------------------
(* Claims about get_period_dates, checked under SpecPeriod                  *)

Returned(name) == pc = "returned" /\ period_type = name

\* Quarter arithmetic stated from the calendar, not from the code: the
\* quarter before the one holding month m of year y.
PrevQuarterYear(y, m)       == IF m <= 3 THEN y - 1 ELSE y
PrevQuarterFirstMonth(y, m) == IF m <= 3 THEN 10 ELSE ((m - 1) \div 3) * 3 - 2

\* The calendar dates d with a <= d <= b.
Window(a, b) ==
    { d \in DatesOf(a.year .. b.year) : DateLE(a, d) /\ DateLE(d, b) }

\* C1: "Last Quarter" returns the first and the last day of the calendar
\* quarter before the reference's quarter; from a Q1 reference that is
\* Oct 1 .. Dec 31 of the previous year.
C1_LastQuarter ==
    Returned("Last Quarter") =>
        LET y  == reference_date.year
            m  == reference_date.month
            py == PrevQuarterYear(y, m)
            pm == PrevQuarterFirstMonth(y, m)
        IN  /\ start_date = Date(py, pm, 1)
            /\ end_date = Date(py, pm + 2, DaysInMonth(py, pm + 2))
            /\ m <= 3 => /\ start_date = Date(y - 1, 10, 1)
                         /\ end_date = Date(y - 1, 12, 31)

C1_Witness ==
    /\ Returned("Last Quarter")
    /\ reference_date = Date(2024, 1, 15)
    /\ start_date = Date(2023, 10, 1)
    /\ end_date = Date(2023, 12, 31)

\* C2: "Last Month" returns day 1 and the last calendar day of the month
\* before the reference's month (28, 29, 30 or 31), December of the previous
\* year when the reference is in January.
C2_LastMonth ==
    Returned("Last Month") =>
        LET y  == reference_date.year
            m  == reference_date.month
            py == IF m = 1 THEN y - 1 ELSE y
            pm == IF m = 1 THEN 12 ELSE m - 1
        IN  /\ start_date = Date(py, pm, 1)
            /\ end_date = Date(py, pm, DaysInMonth(py, pm))
            /\ end_date \in DatesOf({py})

C2_Witness ==
    /\ Returned("Last Month")
    /\ reference_date = Date(2024, 3, 15)
    /\ start_date = Date(2024, 2, 1)
    /\ end_date = Date(2024, 2, 29)

\* C3: "Last 7 Days" and "Last 30 Days" end on the reference and start 6 and
\* 29 days before it, so the inclusive window holds exactly 7 and exactly 30
\* calendar days.
C3_LastNDays ==
    /\ Returned("Last 7 Days") =>
          /\ end_date = reference_date
          /\ ToOrdinal(reference_date) - ToOrdinal(start_date) = 6
          /\ Cardinality(Window(start_date, end_date)) = 7
    /\ Returned("Last 30 Days") =>
          /\ end_date = reference_date
          /\ ToOrdinal(reference_date) - ToOrdinal(start_date) = 29
          /\ Cardinality(Window(start_date, end_date)) = 30

\* A 30-day window that crosses the end of February of a leap year.
C3_Witness ==
    /\ Returned("Last 30 Days")
    /\ reference_date = Date(2024, 3, 10)
    /\ start_date = Date(2024, 2, 10)
    /\ Cardinality(Window(start_date, end_date)) = 30

\* C4: the to-date periods end on the reference and start on the first day
\* of the month, of the quarter (month 1, 4, 7 or 10) and of the year that
\* hold the reference; start <= reference = end.
C4_ThisPeriods ==
    LET y == reference_date.year
        m == reference_date.month
    IN  /\ Returned("This Month") => start_date = Date(y, m, 1)
        /\ Returned("This Quarter") =>
              /\ start_date = Date(y, ((m - 1) \div 3) * 3 + 1, 1)
              /\ start_date.month \in {1, 4, 7, 10}
              /\ start_date.month <= m /\ m <= start_date.month + 2
        /\ Returned("This Year") => start_date = Date(y, 1, 1)
        /\ (pc = "returned"
              /\ period_type \in {"This Month", "This Quarter", "This Year"}) =>
              /\ end_date = reference_date
              /\ DateLE(start_date, reference_date)

C4_Witness ==
    /\ Returned("This Quarter")
    /\ reference_date = Date(2024, 12, 31)
    /\ start_date = Date(2024, 10, 1)
    /\ end_date = Date(2024, 12, 31)

\* C5: a call with a period name outside the recognized set does not return
\* normally (it fails with InvalidPeriod); in particular it never returns
\* the (None, None) of "All Time".
C5_UnrecognizedRejected ==
    period_type \notin PeriodOptions => pc # "returned"

----------------------------------------------------------------------------
(* Claims about calculate_monthly_metrics, checked under SpecMonthly        *)

MonthlyReturned == page = "Analytics" /\ pc \in {"returned", "displayed"}

RECURSIVE SumOf(_, _)
\* The sum of column `col` (a function of the row) over the rows of a table.
SumOf(col(_), table) ==
    IF table = <<>> THEN 0
    ELSE col(Head(table)) + SumOf(col, Tail(table))

TotalOrdersOf(r)     == r.total_orders
CancelledOrdersOf(r) == r.cancelled_orders

DigitValue(ch) == CHOOSE n \in 0..9 : Digit(n) = ch

\* The (year, month) a "YYYY-MM" label names.
ParseYearMonth(label) ==
    [ year  |-> DigitValue(label[1]) * 1000 + DigitValue(label[2]) * 100
                + DigitValue(label[3]) * 10 + DigitValue(label[4]),
      month |-> DigitValue(label[6]) * 10 + DigitValue(label[7]) ]

\* The input orders created in month ym, and the cancelled ones among them.
OrdersIn(ym) ==
    { i \in DOMAIN df :
        df[i].created_at.year = ym.year /\ df[i].created_at.month = ym.month }
CancelledIn(ym) == { i \in OrdersIn(ym) : df[i].status = "Cancelled" }

\* The distinct (year, month) pairs of the input.
InputMonths ==
    { [year |-> df[i].created_at.year, month |-> df[i].created_at.month] :
        i \in DOMAIN df }

\* C6: every output row has 0 <= cancelled_orders <= total_orders and
\* 0 <= cancel_rate <= 100, and over all rows the cancelled orders do not
\* exceed the total orders.
C6_MonthlyBounds ==
    (MonthlyReturned /\ df # <<>>) =>
        /\ \A j \in DOMAIN monthly_stats :
              /\ 0 <= monthly_stats[j].cancelled_orders
              /\ monthly_stats[j].cancelled_orders <= monthly_stats[j].total_orders
              /\ FloatLE(Float(0, 1), monthly_stats[j].cancel_rate)
              /\ FloatLE(monthly_stats[j].cancel_rate, Float(100, 1))
        /\ SumOf(CancelledOrdersOf, monthly_stats)
              <= SumOf(TotalOrdersOf, monthly_stats)

\* Both ends of the range occur: a month fully cancelled (rate 100) next to
\* a month with no cancellation (rate 0).
C6_Witness ==
    /\ MonthlyReturned
    /\ \E j, k \in DOMAIN monthly_stats :
          /\ monthly_stats[j].total_orders >= 2
          /\ FloatEq(monthly_stats[j].cancel_rate, Float(100, 1))
          /\ FloatEq(monthly_stats[k].cancel_rate, Float(0, 1))

\* C7: one row per distinct (year, month) that has an input order, in
\* ascending chronological order; total_orders is the number of input orders
\* of the month and cancelled_orders the number of those whose status is
\* exactly 'Cancelled'; total_orders sums to the number of input orders.
C7_MonthlyRows ==
    MonthlyReturned =>
        /\ Len(monthly_stats) = Cardinality(InputMonths)
        /\ { ParseYearMonth(monthly_stats[j].year_month) :
                j \in DOMAIN monthly_stats } = InputMonths
        /\ \A j, k \in DOMAIN monthly_stats :
              j < k => PeriodLT(ParseYearMonth(monthly_stats[j].year_month),
                                ParseYearMonth(monthly_stats[k].year_month))
        /\ \A j \in DOMAIN monthly_stats :
              LET ym == ParseYearMonth(monthly_stats[j].year_month)
              IN  /\ monthly_stats[j].total_orders = Cardinality(OrdersIn(ym))
                  /\ monthly_stats[j].total_orders >= 1
                  /\ monthly_stats[j].cancelled_orders = Cardinality(CancelledIn(ym))
        /\ SumOf(TotalOrdersOf, monthly_stats) = Len(df)

\* Three orders in January 2024, one of them cancelled, and two in February
\* 2024, none cancelled: rows Jan(3, 1) then Feb(2, 0).
C7_Witness ==
    /\ MonthlyReturned
    /\ Cardinality(OrdersIn([year |-> 2024, month |-> 1])) = 3
    /\ Cardinality(CancelledIn([year |-> 2024, month |-> 1])) = 1
    /\ Cardinality(OrdersIn([year |-> 2024, month |-> 2])) = 2
    /\ Cardinality(CancelledIn([year |-> 2024, month |-> 2])) = 0
    /\ Len(monthly_stats) = 2
    /\ monthly_stats[1].year_month = <<"2", "0", "2", "4", "-", "0", "1">>
    /\ monthly_stats[1].total_orders = 3 /\ monthly_stats[1].cancelled_orders = 1
    /\ monthly_stats[2].year_month = <<"2", "0", "2", "4", "-", "0", "2">>
    /\ monthly_stats[2].total_orders = 2 /\ monthly_stats[2].cancelled_orders = 0

\* h hundredths is cancelled/total*100 rounded to 2 decimal places: the
\* nearest hundredth, a tie going to the even one.
IsRounded2(h, cancelled, total) ==
    LET err == h * total - 10000 * cancelled
        dist == IF err < 0 THEN -err ELSE err
    IN  /\ 2 * dist <= total
        /\ 2 * dist = total => h % 2 = 0

\* A float that is cancelled/total*100 rounded to 2 decimal places, or 0 when
\* total is 0.
IsRoundedRate(x, cancelled, total) ==
    IF total = 0 THEN FloatEq(x, Float(0, 1))
    ELSE LET below == (10000 * cancelled) \div total
         IN  \E h \in {below, below + 1} : /\ IsRounded2(h, cancelled, total)
                                           /\ FloatEq(x, Float(h, 100))

----------------------------------------------------------------------------
(* Claims about the product performance table, checked under SpecProduct    *)

ProductDone == page = "Poor_Performance_Analysis" /\ pc = "done"

\* The rows of filtered_df that are line items of product pid.
ItemsOf(pid) == { i \in DOMAIN filtered_df : filtered_df[i].product_id = pid }

\* C9: a zero denominator gives 0, never NaN, an infinity or an error: a
\* product row whose total_sales_count is 0 has return_rate = 0 and
\* profit_margin = 0, a row whose avg_sale_price is 0 has profit_margin = 0,
\* and no row carries NaN or an infinity in return_rate or profit_margin.
C9_ZeroDenominatorIsZero ==
    ProductDone =>
        \A j \in DOMAIN product_stats :
            LET r == product_stats[j]
            IN  /\ IsFinite(r.return_rate)
                /\ IsFinite(r.profit_margin)
                /\ r.total_sales_count = 0 =>
                      /\ FloatEq(r.return_rate, Zero)
                      /\ FloatEq(r.profit_margin, Zero)
                /\ FloatEq(r.avg_sale_price, Zero) =>
                      FloatEq(r.profit_margin, Zero)

\* C10: a product whose cost or retail price is null, and that has a line
\* item, has a row in the product performance table; in it the missing value
\* is 0 and profit_per_item = avg_sale_price - cost with that 0.
C10_NullCostKept ==
    ProductDone =>
        \A pid \in ProductIds :
            (/\ ItemsOf(pid) # {}
             /\ \/ IsNaN(products_df[pid].cost)
                \/ IsNaN(products_df[pid].retail_price)) =>
                \E j \in DOMAIN product_stats :
                    LET r == product_stats[j]
                    IN  /\ r.product_id = pid
                        /\ r.total_sales_count = Cardinality(ItemsOf(pid))
                        /\ IsNaN(products_df[pid].cost) =>
                              /\ FloatEq(r.cost, Zero)
                              /\ FloatEq(r.profit_per_item, r.avg_sale_price)
                        /\ IsNaN(products_df[pid].retail_price) =>
                              FloatEq(r.retail_price, Zero)

\* C11: in every row of the product performance table return_count is the
\* number of the product's line items in the filtered set whose status is
\* exactly 'Returned', return_count <= total_sales_count, and return_rate is
\* return_count / total_sales_count * 100 (to the 2 decimal places every
\* numeric output is rounded to), within [0, 100].
C11_ReturnRate ==
    ProductDone =>
        \A j \in DOMAIN product_stats :
            LET r == product_stats[j]
                returned == { i \in ItemsOf(r.product_id) :
                                filtered_df[i].status = "Returned" }
            IN  /\ r.return_count = Cardinality(returned)
                /\ r.total_sales_count = Cardinality(ItemsOf(r.product_id))
                /\ 0 <= r.return_count
                /\ r.return_count <= r.total_sales_count
                /\ r.total_sales_count >= 1
                /\ IsRoundedRate(r.return_rate, r.return_count, r.total_sales_count)
                /\ FloatLE(Zero, r.return_rate)
                /\ FloatLE(r.return_rate, Float(100, 1))

\* One returned line item of two (50.00) beside a product whose only line
\* item was returned (100).
C11_Witness ==
    /\ ProductDone
    /\ \E j, k \in DOMAIN product_stats :
          /\ product_stats[j].total_sales_count = 2
          /\ product_stats[j].return_count = 1
          /\ product_stats[j].return_rate = Float(5000, 100)
          /\ product_stats[k].total_sales_count = 1
          /\ product_stats[k].return_count = 1
          /\ FloatEq(product_stats[k].return_rate, Float(100, 1))


----------------------------------------------------------------------------
(* Claims about the Category_Analysis page *)

\* The category table is on the screen.
CategoryAggregated ==
    page = "Category_Analysis" /\ pc \in {"views", "done"}

Abs(n) == IF n < 0 THEN -n ELSE n

RECURSIVE SumPct(_)
\* The sum of the 'Sales %' column in hundredths of a percent.
SumPct(table) ==
    IF table = <<>> THEN 0 ELSE Head(table).Sales_Pct.num + SumPct(Tail(table))

\* Total sales of a category in cents, from the filtered rows.
SalesOf(category) ==
    SumCents(filtered_df, { i \in DOMAIN filtered_df : filtered_df[i].category = category })

\* C12: when the category table is computed from rows whose sales are not
\* all zero, every 'Sales %' is the category's total sales divided by the
\* total sales of all categories times 100, rounded to 2 decimals, and the
\* column sums to 100 within 0.005 per category.
C12_SalesPctSum ==
    LET all == SumCents(filtered_df, DOMAIN filtered_df)
    IN  (CategoryAggregated /\ all # 0) =>
            /\ \A j \in DOMAIN category_metrics :
                   LET r == category_metrics[j]
                   IN  /\ r.Sales_Pct.den = 100
                       /\ 2 * Abs(r.Sales_Pct.num * all - 10000 * SalesOf(r.key)) <= all
            /\ 2 * Abs(SumPct(category_metrics) - 10000) <= Len(category_metrics)

\* Three categories with equal sales: 33.33 each, 99.99 in sum; and a
\* category without sales beside one with sales.
C12_Witness ==
    /\ page = "Category_Analysis" /\ pc = "done"
    /\ Len(category_metrics) = 3
    /\ \A j \in DOMAIN category_metrics : category_metrics[j].Sales_Pct = Float(3333, 100)
    /\ SumPct(category_metrics) = 9999

\* The rows of a table descend by a column.
Descending(table, column) ==
    \A j \in DOMAIN table :
        j < Len(table) =>
            FloatLE(SortKey(table[j + 1], column), SortKey(table[j], column))

\* Rows of a table with equal values of a column stand in group-key order.
TiesInKeyOrder(table, column) ==
    \A j \in DOMAIN table :
        (j < Len(table) /\ SortKey(table[j], column) = SortKey(table[j + 1], column))
            => TextRank(table[j].key) < TextRank(table[j + 1].key)

\* The first rows of the category table are the categories with the largest
\* total sales: no category left out of a slice sold more than one in it.
SliceIsLargest(n) ==
    \A j, k \in DOMAIN category_metrics :
        (j <= n /\ k > n) =>
            FloatLE(category_metrics[k].Total_Sales, category_metrics[j].Total_Sales)

\* The part of C13 about the sort keys alone: the category and department
\* tables descend by Total Sales, the two views by Order Count and by Avg
\* Price, and the head slices hold the largest categories.
C13_Descending ==
    /\ CategoryAggregated =>
           /\ Descending(category_metrics, "Total_Sales")
           /\ SliceIsLargest(Top10) /\ SliceIsLargest(Top5)
    /\ (page = "Category_Analysis" /\ pc = "done") =>
           /\ Descending(top_10_by_count, "Order_Count")
           /\ Descending(top_10_by_price, "Avg_Price")
           /\ Descending(dept_metrics, "Total_Sales")

----------------------------------------------------------------------------
(* Claims about a visit to any of the three pages *)

\* The filters of the page have been applied.
Filtered ==
    \/ pc \in {"aggregate", "views", "done"}
    \/ pc = "stopped" /\ shown = "warning"

\* The overview metrics of the page have been computed.
MetricsShown == pc \in {"views", "done"}

\* The overview metric each page computes by dividing by a row count.
DividedMetric ==
    CASE page = "Analytics"                 -> overview.avg_cancel_rate
      [] page = "Category_Analysis"         -> overview.avg_order_value
      [] page = "Poor_Performance_Analysis" -> overview.avg_return_rate

\* C14: on every page, when the filters match zero rows no aggregation step
\* raises and no displayed metric (overall cancel rate, overall return rate,
\* average order value) is computed by dividing by the zero row count.
C14_EmptyResultIsNoData ==
    (Filtered /\ filtered_df = <<>>) =>
        /\ pc # "exception"
        /\ MetricsShown => IsFinite(DividedMetric)

\* The Analytics page stops with its warning before any metric is computed.
C14_Witness ==
    /\ page = "Analytics" /\ pc = "stopped" /\ shown = "warning"
    /\ merged_df # <<>> /\ filtered_df = <<>>

\* The load of this run failed: the files cannot be read and nothing is
\* cached.
LoadFailed == ~files_ok /\ cache = <<>> /\ pc # "load"

\* C15: when an input file is missing or unreadable the page shows an error
\* and the run halts: after the failed load no filter, aggregation or chart
\* step of the run is executed, on each of the three pages.
C15_FailedLoadHalts ==
    LoadFailed =>
        /\ pc \in {"stopped", "exception"}
        /\ shown \in {"error", "exception"}
        /\ selection = <<>> /\ merged_df = <<>> /\ filtered_df = <<>>
        /\ overview = <<>> /\ idleCategory /\ idleMonthly /\ product_stats = <<>>

\* The step of a run whose load failed is the load itself: no other step
\* is taken with unreadable files.
C15_OnlyLoadRuns ==
    [][(~files_ok /\ cache = <<>>) => (pc = "load" /\ pc' \in {"stopped", "exception"})]_vars

\* The Category page halted by the exception of read_csv.
C15_Witness ==
    /\ page = "Category_Analysis" /\ ~files_ok
    /\ pc = "exception" /\ shown = "exception"

\* The Analytics page halted by st.stop() after st.error.
C15_WitnessAnalytics ==
    /\ page = "Analytics" /\ ~files_ok
    /\ pc = "stopped" /\ shown = "error"

RowsOf(frame) == { frame[i] : i \in DOMAIN frame }

\* The three filters of the Category page as predicates of a loaded row.
StatusPasses(r) == selection.status = "All" \/ r.status = selection.status

GenderPasses(r) ==
    \/ selection.gender = "All"
    \/ selection.gender = "Male" /\ r.gender = "M"
    \/ selection.gender = "Female" /\ r.gender = "F"

DatePasses(r) ==
    \/ selection.period_type = "All Time"
    \/ LET range == SelectedRange(selection, merged_df)
       IN  /\ ToOrdinal(range[1]) <= ToOrdinal(r.created_at)
           /\ ToOrdinal(r.created_at) <= ToOrdinal(range[2])

\* The three filters of the Poor Performance page.
CutoffPasses(r) ==
    \/ selection.period_type = "All Time"
    \/ ToOrdinal(r.created_at) >=
           ToOrdinal(MaxDate(CreatedDates(merged_df))) - PeriodDays(selection.period_type)

CategoryPasses(r) == selection.category = "All" \/ r.category = selection.category

DepartmentPasses(r) == selection.department = "All" \/ r.department = selection.department

\* The two filters of the Analytics page.
CountryPasses(r) == r.country \in selection.countries

SourcePasses(r) == r.traffic_source \in selection.traffic_sources

\* A loaded row satisfies every filter of the page.
PassesAll(r) ==
    CASE page = "Category_Analysis" ->
             StatusPasses(r) /\ GenderPasses(r) /\ DatePasses(r)
      [] page = "Poor_Performance_Analysis" ->
             CutoffPasses(r) /\ CategoryPasses(r) /\ DepartmentPasses(r)
      [] page = "Analytics" ->
             CountryPasses(r) /\ SourcePasses(r)

\* The loaded rows filtered in the reverse of the page's order.
FilteredInReverse ==
    CASE page = "Category_Analysis" ->
             SelectSeq(SelectSeq(SelectSeq(merged_df, DatePasses), GenderPasses), StatusPasses)
      [] page = "Poor_Performance_Analysis" ->
             SelectSeq(SelectSeq(SelectSeq(merged_df, DepartmentPasses), CategoryPasses),
                       CutoffPasses)
      [] page = "Analytics" ->
             SelectSeq(SelectSeq(merged_df, SourcePasses), CountryPasses)

\* C17: on each page the filtered rows are exactly the loaded rows that
\* satisfy every active filter at once; a filter set to 'All' removes
\* nothing; and applying the filters in another order gives the same rows.
C17_FilterIsConjunction ==
    Filtered =>
        /\ RowsOf(filtered_df) = { r \in RowsOf(merged_df) : PassesAll(r) }
        /\ Len(filtered_df) = Cardinality(RowsOf(filtered_df))
        /\ filtered_df = FilteredInReverse

\* The Category page with its three filters active, each of two loaded rows
\* failing a different filter.
C17_Witness ==
    /\ page = "Category_Analysis" /\ pc = "done"
    /\ selection.status = "Complete" /\ selection.gender = "Female"
    /\ selection.period_type = "Last 30 Days"
    /\ Len(merged_df) = 2 /\ filtered_df = <<>>
    /\ StatusPasses(merged_df[1]) /\ ~GenderPasses(merged_df[1])
    /\ ~StatusPasses(merged_df[2]) /\ GenderPasses(merged_df[2])

\* The Poor Performance page with category and department active.
C17_WitnessPoor ==
    /\ page = "Poor_Performance_Analysis" /\ pc = "done"
    /\ selection.category = "Jeans" /\ selection.department = "Men"
    /\ selection.period_type = "Last 30 Days"
    /\ Len(merged_df) = 2 /\ Len(filtered_df) = 1

\* "Last 30 Days" is the only active filter of the run.
OnlyLast30Days ==
    /\ Filtered
    /\ \/ /\ page = "Category_Analysis"
          /\ selection.period_type = "Last 30 Days"
          /\ selection.status = "All" /\ selection.gender = "All"
       \/ /\ page = "Poor_Performance_Analysis"
          /\ selection.period_type = "Last 30 Days"
          /\ selection.category = "All" /\ selection.department = "All"

\* The loaded rows dated within the 30 days that end on the latest date.
InLast30Days ==
    LET reference == ToOrdinal(MaxDate(CreatedDates(merged_df)))
    IN  { r \in RowsOf(merged_df) :
            /\ reference - 29 <= ToOrdinal(r.created_at)
            /\ ToOrdinal(r.created_at) <= reference }

\* C18: with no other filter, "Last 30 Days" selects on the Category page
\* and on the Poor Performance page exactly the rows dated within
\* [reference - 29 days, reference], reference being the latest created_at
\* date of the data.
C18_SameLast30Days ==
    OnlyLast30Days => RowsOf(filtered_df) = InLast30Days

\* The Category page alone keeps to the 30-day window.
C18_CategoryLast30Days ==
    (OnlyLast30Days /\ page = "Category_Analysis") => RowsOf(filtered_df) = InLast30Days

\* The Category page drops a line item dated 30 days before the latest one.
C18_Witness ==
    /\ OnlyLast30Days /\ page = "Category_Analysis"
    /\ Len(merged_df) = 2 /\ Len(filtered_df) = 1
    /\ merged_df[1].created_at = Date(2024, 2, 29)
    /\ merged_df[2].created_at = Date(2024, 3, 30)

----------------------------------------------------------------------------
(* Claims about the "Last" and "This" ranges of one reference date *)

\* Both calls have returned.
Compared == page = "Category_Analysis" /\ pc = "compared"

\* C19: for every reference date and each unit X of Month, Quarter and
\* Year, the ranges get_period_dates returns for "Last X" and "This X" are
\* contiguous and disjoint: Last X end + 1 day = This X start,
\* Last X start <= Last X end < This X start <= reference; and Last Year is
\* January 1 to December 31 of the year before the reference's year.
C19_LastThenThis ==
    Compared =>
        LET last_start == ToOrdinal(period_result[1])
            last_end   == ToOrdinal(period_result[2])
            this_start == ToOrdinal(this_result[1])
            reference  == ToOrdinal(reference_date)
        IN  /\ last_end + 1 = this_start
            /\ last_start <= last_end
            /\ last_end < this_start
            /\ this_start <= reference
            /\ this_result[2] = reference_date
            /\ period_type = "This Year" =>
                   /\ period_result[1] = Date(reference_date.year - 1, 1, 1)
                   /\ period_result[2] = Date(reference_date.year - 1, 12, 31)

\* Leap day 2024: Last Year is the whole of 2023 and This Year starts the
\* day after it ends.
C19_Witness ==
    /\ Compared
    /\ reference_date = Date(2024, 2, 29)
    /\ period_result = Range(Date(2023, 1, 1), Date(2023, 12, 31))
    /\ this_result = Range(Date(2024, 1, 1), Date(2024, 2, 29))

----------------------------------------------------------------------------
(* Claims about a session *)

\* The table load_data or load_analysis_data computes from the files.
LoadedTable ==
    IF page = "Analytics" THEN MergeUsers(orders_df, users_df)
    ELSE MergePoor(order_items_df, products_df)

\* The run has come to its end.
RunEnded == pc = "done" \/ (pc = "stopped" /\ shown = "warning")

\* C16, the state part: the cached table is the table loaded from the
\* files, every run works on that table, and a run that ends with the
\* widgets of the first run shows the tables of the first run.
C16_SameTables ==
    /\ cache # <<>> => cache = << LoadedTable >>
    /\ pc \in {"filter", "aggregate", "done"} => merged_df = LoadedTable
    /\ (RunEnded /\ remembered # <<>>) =>
           (remembered[2] = selection => remembered[3] = Tables)

\* C16, the step part: no step changes the cache once it is filled,
\* filtering leaves the loaded table as it is, and aggregation leaves the
\* loaded and the filtered table as they are.
C16_NoStepModifies ==
    /\ cache # <<>> => cache' = cache
    /\ pc = "filter" => merged_df' = merged_df
    /\ pc = "aggregate" => (merged_df' = merged_df /\ filtered_df' = filtered_df)

============================================================================
